---- MODULE Spec2Model ----
(***************************************************************************)
(* A model of the Bitcask storage engine of yashagw/kvdb                   *)
(* (src/internal/bitcask): the record codec, the log file with its         *)
(* buffered writer, the key directory, rotation, recovery by log replay,   *)
(* and the engine operations Put, Get, Delete, Keys, Sync, Close and Open. *)
(*                                                                         *)
(* Files are sequences of bytes.  Every file of the directory has the      *)
(* bytes the operating system holds for it (data) and the length of the    *)
(* prefix that an fsync has made durable (durable).  A LogFile object      *)
(* holds the bytes still in its bufio.Writer (buf), the writer's sticky    *)
(* error (werr), its own idea of the file size (size), the readOnly flag   *)
(* and whether its handle was closed.                                      *)
(***************************************************************************)
EXTENDS Integers, Sequences, FiniteSets, TLC

VARIABLES
    disk,           \* the directory: file id -> [data, durable]
    status,         \* "down": no engine instance; "open"; "closed": Close returned nil
    cfg,            \* bc.config: [MaxFileSize, SyncWrites]
    keyDir,         \* bc.keyDir: key -> KeyDirEntry
    activeFile,     \* bc.activeFile: the id of the LogFile object it points to
    readOnlyFiles,  \* bc.readOnlyFiles: the ids (map keys) of the LogFile objects in it
    lf,             \* the LogFile objects of this engine instance, by id
    ret,            \* what the last call returned
    last,           \* history: per key, what the last successful write wrote
    mine,           \* history: the keys written successfully by this engine instance
    shut,           \* history: how the previous instance ended, its Get results and key directory
    nfaults,        \* the number of injected I/O errors and power losses so far
    ncalls,         \* the number of calls of Put, Delete and Sync so far
    lost,           \* history: a crash has taken bytes of a file
    th,             \* the goroutines calling the engine: where each is in its call
    mu,             \* bc.mu: the goroutine holding it for writing, those holding it for reading
    codec,          \* a LogFile on its own: the object, its file, what was written and read
    tree,           \* a BPlusTree: root, degree, the nodes and the arrays behind their slices
    ref             \* history: per key, the value of the last Put into the tree

\* The variables of the codec and of the B+ tree, which the engine does not touch.
codecVars == <<codec>>
treeVars == <<tree, ref>>

vars == <<disk, status, cfg, keyDir, activeFile, readOnlyFiles, lf, ret, last, mine,
          shut, nfaults, ncalls, lost, th, mu, codec, tree, ref>>

(***************************************************************************)
(* Bounds of the model and the inputs the operations draw from.            *)
(***************************************************************************)
MaxCalls == 3           \* calls of Put, Delete and Sync
MaxFiles == 3           \* no segment file is created beyond this many
MaxFaults == 1          \* injected I/O errors and power losses per behaviour
Threads == {1, 2}       \* the goroutines that call the engine concurrently
NoThread == 0

Keys == {<<97>>, <<98, 99>>}
Values == {<<>>, <<2>>, <<2, 3>>}
Writes == {<<<<97>>, <<>> >>, <<<<97>>, <<2, 3>> >>, <<<<98, 99>>, <<2>> >>}   \* the Puts called
Timestamps == {258}
MaxFileSizes == {15}

HeaderSize == 12        \* timestamp, key size and value size, 4 bytes each

NoFile == 0 - 1
Never == "never"
Deleted == "deleted"

\* The element of a one-element set.  The({E : x \in {V}}) is E with x standing for
\* the value of V, which is computed once: the way the operators below name the
\* result of a call (w, fs, r, ...) before they look at its error.
The(S) == CHOOSE x \in S : TRUE

(***************************************************************************)
(* Record codec: binary.Write / binary.Read with binary.LittleEndian.      *)
(***************************************************************************)
\* The four bytes of x with the most significant first.
BE32(x) ==
    << (x \div 16777216) % 256, (x \div 65536) % 256, (x \div 256) % 256, x % 256 >>

\* binary.LittleEndian: the four bytes of a uint32, and the uint32 of four bytes.
LE32(x) ==
    << x % 256, (x \div 256) % 256, (x \div 65536) % 256, (x \div 16777216) % 256 >>

FromLE32(b) == b[1] + 256 * b[2] + 65536 * b[3] + 16777216 * b[4]

\* The log entry Put and Delete build (operations.go 21-27, 99-105).  The timestamps,
\* lengths and file ids of the model stay far below 2^32, where uint32 would wrap.
LogEntry(ts, key, value) ==
    [Timestamp |-> ts, KeySize |-> Len(key), ValueSize |-> Len(value),
     Key |-> key, Value |-> value]

\* The bytes LogFile.Write hands to the writer, in order.
EncodeEntry(entry) ==
    LE32(entry.Timestamp) \o LE32(entry.KeySize) \o LE32(entry.ValueSize)
        \o entry.Key \o entry.Value

\* io.ReadFull of n bytes at offset pos of data: nil, io.EOF when no byte is left and
\* n > 0, io.ErrUnexpectedEOF when some but not all bytes are there.
ReadFull(data, pos, n) ==
    LET avail == IF Len(data) > pos THEN Len(data) - pos ELSE 0
    IN  IF n = 0 THEN [err |-> "nil", bytes |-> <<>>]
        ELSE IF avail >= n THEN [err |-> "nil", bytes |-> SubSeq(data, pos + 1, pos + n)]
        ELSE IF avail = 0 THEN [err |-> "EOF", bytes |-> <<>>]
        ELSE [err |-> "unexpected EOF", bytes |-> <<>>]

\* LogFile.ReadEntry: decode one record at offset pos.
ReadEntry(data, pos) ==
    LET none == [Timestamp |-> 0, KeySize |-> 0, ValueSize |-> 0, Key |-> <<>>, Value |-> <<>>]
    IN  The({
            IF ts.err # "nil" THEN [err |-> ts.err, entry |-> none, nextPos |-> 0]
            ELSE IF ks.err # "nil" THEN [err |-> ks.err, entry |-> none, nextPos |-> 0]
            ELSE IF vs.err # "nil" THEN [err |-> vs.err, entry |-> none, nextPos |-> 0]
            ELSE The({
                IF key.err # "nil" THEN [err |-> key.err, entry |-> none, nextPos |-> 0]
                ELSE IF value.err # "nil"
                    THEN [err |-> value.err, entry |-> none, nextPos |-> 0]
                ELSE [err |-> "nil",
                      entry |-> [Timestamp |-> FromLE32(ts.bytes),
                                 KeySize |-> FromLE32(ks.bytes),
                                 ValueSize |-> FromLE32(vs.bytes),
                                 Key |-> key.bytes, Value |-> value.bytes],
                      nextPos |-> pos + HeaderSize + FromLE32(ks.bytes) + FromLE32(vs.bytes)]
                : key \in {ReadFull(data, pos + HeaderSize, FromLE32(ks.bytes))},
                  value \in {ReadFull(data, pos + HeaderSize + FromLE32(ks.bytes),
                                      FromLE32(vs.bytes))}})
            : ts \in {ReadFull(data, pos, 4)},
              ks \in {ReadFull(data, pos + 4, 4)},
              vs \in {ReadFull(data, pos + 8, 4)}})

(***************************************************************************)
(* LogFile (logfile.go).  o is the LogFile object, file the file it has    *)
(* open.  The records of the model are far shorter than the 4096 bytes of  *)
(* the bufio.Writer, so LogFile.Write only fills the buffer and the        *)
(* underlying file is written by Flush alone.                              *)
(***************************************************************************)
Max(S) == CHOOSE x \in S : \A y \in S : y <= x

Ext(f, k, v) == [x \in DOMAIN f \cup {k} |-> IF x = k THEN v ELSE f[x]]

NoFault == [at |-> "none", n |-> 0]

\* A flush into a file opened without O_APPEND: the buffer goes over the bytes at the
\* start of the file.
WriterFlushAtStart(o, file, fail, n) ==
    IF o.werr THEN [err |-> "io", o |-> o, file |-> file, hit |-> FALSE]
    ELSE IF o.buf = <<>> THEN [err |-> "nil", o |-> o, file |-> file, hit |-> FALSE]
    ELSE [err |-> "nil", o |-> [o EXCEPT !.buf = <<>>],
          file |-> [file EXCEPT !.data = o.buf \o SubSeq(file.data, Len(o.buf) + 1,
                                                         Len(file.data))],
          hit |-> FALSE]

\* bufio.Writer.Flush on the writer of o.  fail: the write of the buffer to the file
\* fails after n bytes went out.  An error stays in the writer (werr) for good.
WriterFlush(o, file, fail, n) ==
    IF o.werr THEN [err |-> "io", o |-> o, file |-> file, hit |-> FALSE]
    ELSE IF o.buf = <<>> THEN [err |-> "nil", o |-> o, file |-> file, hit |-> FALSE]
    ELSE IF o.closed
        THEN [err |-> "io", o |-> [o EXCEPT !.werr = TRUE], file |-> file, hit |-> FALSE]
    ELSE IF fail /\ n < Len(o.buf)
        THEN [err |-> "io",
              o |-> [o EXCEPT !.werr = TRUE, !.buf = SubSeq(o.buf, n + 1, Len(o.buf))],
              file |-> [file EXCEPT !.data = file.data \o SubSeq(o.buf, 1, n)],
              hit |-> TRUE]
    ELSE [err |-> "nil", o |-> [o EXCEPT !.buf = <<>>],
          file |-> [file EXCEPT !.data = file.data \o o.buf], hit |-> FALSE]

\* LogFile.Flush
LogFileFlush(o, file, fail, n) ==
    IF o.readOnly THEN [err |-> "nil", o |-> o, file |-> file, hit |-> FALSE]
    ELSE WriterFlush(o, file, fail, n)

\* LogFile.Sync: flush, then fsync.  failSync: the fsync fails.
LogFileSync(o, file, failFlush, n, failSync) ==
    IF o.readOnly THEN [err |-> "nil", o |-> o, file |-> file, hit |-> FALSE]
    ELSE The({
            IF fl.err # "nil" THEN fl
            ELSE IF o.closed THEN [fl EXCEPT !.err = "io"]
            ELSE IF failSync THEN [fl EXCEPT !.err = "io", !.hit = TRUE]
            ELSE [fl EXCEPT !.file.durable = Len(fl.file.data)]
            : fl \in {WriterFlush(o, file, failFlush, n)}})

\* LogFile.Write returning the offset of the record, not of its value.
LogFileWriteRecordPos(o, entry) ==
    IF o.readOnly THEN [err |-> "read-only", o |-> o, valuePos |-> 0]
    ELSE IF o.werr THEN [err |-> "io", o |-> o, valuePos |-> 0]
    ELSE [err |-> "nil",
          o |-> [o EXCEPT !.buf = o.buf \o EncodeEntry(entry),
                          !.size = o.size + 4 + 4 + 4 + Len(entry.Key) + Len(entry.Value)],
          valuePos |-> o.size]

\* LogFile.Write computing the offset of the value after size has advanced.
LogFileWriteSizeFirst(o, entry) ==
    IF o.readOnly THEN [err |-> "read-only", o |-> o, valuePos |-> 0]
    ELSE IF o.werr THEN [err |-> "io", o |-> o, valuePos |-> 0]
    ELSE [err |-> "nil",
          o |-> [o EXCEPT !.buf = o.buf \o EncodeEntry(entry),
                          !.size = o.size + 4 + 4 + 4 + Len(entry.Key) + Len(entry.Value)],
          valuePos |-> o.size + 4 + 4 + 4 + Len(entry.Key) + Len(entry.Value)
                           + HeaderSize + Len(entry.Key)]

\* LogFile.Write: the record goes into the writer, size advances, the offset of the
\* value is returned.
LogFileWrite(o, entry) ==
    IF o.readOnly THEN [err |-> "read-only", o |-> o, valuePos |-> 0]
    ELSE IF o.werr THEN [err |-> "io", o |-> o, valuePos |-> 0]
    ELSE [err |-> "nil",
          o |-> [o EXCEPT !.buf = o.buf \o EncodeEntry(entry),
                          !.size = o.size + 4 + 4 + 4 + Len(entry.Key) + Len(entry.Value)],
          valuePos |-> o.size + HeaderSize + Len(entry.Key)]

\* LogFile.Read: file.ReadAt of valueSize bytes at valuePos (a read of no bytes
\* succeeds wherever it is).
LogFileRead(o, file, valuePos, valueSize) ==
    IF valueSize = 0 THEN [err |-> "nil", value |-> <<>>]
    ELSE IF o.closed \/ valuePos + valueSize > Len(file.data)
        THEN [err |-> "io", value |-> <<>>]
    ELSE [err |-> "nil", value |-> SubSeq(file.data, valuePos + 1, valuePos + valueSize)]

\* NewLogFile: open (and create, unless readOnly) the file of id, size from stat.
NewLogFile(d, id, readOnly, fail) ==
    IF fail \/ (readOnly /\ id \notin DOMAIN d)
        THEN [err |-> "io", o |-> [size |-> 0, readOnly |-> readOnly, buf |-> <<>>,
                                    werr |-> FALSE, closed |-> TRUE], d |-> d]
    ELSE
        LET d2 == IF id \in DOMAIN d THEN d ELSE Ext(d, id, [data |-> <<>>, durable |-> 0])
        IN  [err |-> "nil",
             o |-> [size |-> Len(d2[id].data), readOnly |-> readOnly, buf |-> <<>>,
                    werr |-> FALSE, closed |-> FALSE],
             d |-> d2]

(***************************************************************************)
(* The engine (bitcask.go, operations.go).  e is the engine with its       *)
(* directory: [disk, keyDir, activeFile, readOnlyFiles, lf].  f is the     *)
(* I/O error injected into the call: NoFault, or the place where it        *)
(* strikes.  Every operator returns the engine after the call, the error   *)
(* returned and whether the injected error struck (hit).                   *)
(***************************************************************************)
Eng == [disk |-> disk, keyDir |-> keyDir, activeFile |-> activeFile,
        readOnlyFiles |-> readOnlyFiles, lf |-> lf]

\* createActiveFile without the increment of maxID.
NextFileIDNoIncrement(ro) == Max(ro \cup {0})

\* The id createActiveFile gives the next segment.
NextFileID(ro) == Max(ro \cup {0}) + 1

\* Bitcask.createActiveFile
createActiveFile(e, fail) ==
    LET nextID == NextFileID(e.readOnlyFiles)
    IN  The({
            IF nf.err # "nil" THEN [e |-> e, err |-> nf.err, hit |-> fail]
            ELSE [e |-> [e EXCEPT !.disk = nf.d, !.lf = Ext(e.lf, nextID, nf.o),
                                  !.activeFile = nextID],
                  err |-> "nil", hit |-> FALSE]
            : nf \in {NewLogFile(e.disk, nextID, FALSE, fail)}})

\* rotateActiveFile flushing the active file without the fsync.
rotateActiveFileFlushOnly(e, f) ==
    LET a == e.activeFile
    IN  The({
            IF fl.err # "nil"
            THEN [e |-> [e EXCEPT !.lf[a] = fl.o, !.disk[a] = fl.file], err |-> fl.err,
                  hit |-> fl.hit]
            ELSE createActiveFile([e EXCEPT !.lf[a] = fl.o, !.disk[a] = fl.file,
                                            !.readOnlyFiles = e.readOnlyFiles \cup {a}],
                                  f.at = "rotate.open")
            : fl \in {LogFileFlush(e.lf[a], e.disk[a], f.at = "rotate.flush", f.n)}})

\* Bitcask.rotateActiveFile
rotateActiveFile(e, f) ==
    LET a == e.activeFile
    IN  The({
            IF sy.err # "nil"
            THEN [e |-> [e EXCEPT !.lf[a] = sy.o, !.disk[a] = sy.file], err |-> sy.err,
                  hit |-> sy.hit]
            ELSE createActiveFile([e EXCEPT !.lf[a] = sy.o, !.disk[a] = sy.file,
                                            !.readOnlyFiles = e.readOnlyFiles \cup {a}],
                                  f.at = "rotate.open")
            : sy \in {LogFileSync(e.lf[a], e.disk[a], f.at = "rotate.flush", f.n,
                                  f.at = "rotate.sync")}})

\* Put and Delete leaving the record in the writer's buffer.
FlushOrSyncSkipped(e, c, f) == [e |-> e, err |-> "nil", hit |-> FALSE]

\* The flush or sync that follows the write of a record (operations.go 35-45, 113-123).
FlushOrSync(e, c, f) ==
    LET a == e.activeFile
    IN  The({
            [e |-> [e EXCEPT !.lf[a] = r.o, !.disk[a] = r.file], err |-> r.err,
             hit |-> r.hit]
            : r \in {IF c.SyncWrites
                     THEN LogFileSync(e.lf[a], e.disk[a], f.at = "flush", f.n,
                                      f.at = "sync")
                     ELSE LogFileFlush(e.lf[a], e.disk[a], f.at = "flush", f.n)}})

\* The key directory after Put wrote the record of key at valuePos.
KeyDirPut(e, key, entry, valuePos) ==
    Ext(e.keyDir, key, [FileID |-> e.activeFile, ValueSize |-> entry.ValueSize,
                        ValuePos |-> valuePos, Timestamp |-> entry.Timestamp])

\* The key directory without key.
KeyDirDelete(kd, key) == [x \in DOMAIN kd \ {key} |-> kd[x]]

\* Put updating the key directory before the flush or sync has returned.
PutRecordIndexFirst(e, c, key, value, ts, f) ==
    LET a == e.activeFile
        entry == LogEntry(ts, key, value)
    IN  The({
            IF w.err # "nil" THEN [e |-> e, err |-> w.err, hit |-> FALSE]
            ELSE FlushOrSync([e EXCEPT !.lf[a] = w.o,
                                       !.keyDir = KeyDirPut(e, key, entry, w.valuePos)],
                             c, f)
            : w \in {LogFileWrite(e.lf[a], entry)}})

\* Put, after the rotation check: write, flush or sync, update the key directory.
PutRecord(e, c, key, value, ts, f) ==
    LET a == e.activeFile
        entry == LogEntry(ts, key, value)
    IN  The({
            IF w.err # "nil" THEN [e |-> e, err |-> w.err, hit |-> FALSE]
            ELSE The({
                IF fs.err # "nil" THEN fs
                ELSE [e |-> [fs.e EXCEPT
                                !.keyDir = KeyDirPut(fs.e, key, entry, w.valuePos)],
                      err |-> "nil", hit |-> FALSE]
                : fs \in {FlushOrSync([e EXCEPT !.lf[a] = w.o], c, f)}})
            : w \in {LogFileWrite(e.lf[a], entry)}})

\* The rotation check with > for >=.
NeedsRotationAbove(e, c) == e.lf[e.activeFile].size > c.MaxFileSize

\* Whether Put rotates first (operations.go 14).
NeedsRotation(e, c) == e.lf[e.activeFile].size >= c.MaxFileSize

\* Bitcask.Put
BitcaskPut(e, c, key, value, ts, f) ==
    IF NeedsRotation(e, c)
    THEN The({IF r.err # "nil" THEN r ELSE PutRecord(r.e, c, key, value, ts, f)
              : r \in {rotateActiveFile(e, f)}})
    ELSE PutRecord(e, c, key, value, ts, f)

\* Delete writing its tombstone without the lookup in the key directory.
BitcaskDeleteNoLookup(e, c, key, ts, f) ==
    LET a == e.activeFile
    IN  The({
            IF w.err # "nil" THEN [e |-> e, err |-> w.err, hit |-> FALSE]
            ELSE The({
                IF fs.err # "nil" THEN fs
                ELSE [e |-> [fs.e EXCEPT !.keyDir = KeyDirDelete(fs.e.keyDir, key)],
                      err |-> "nil", hit |-> FALSE]
                : fs \in {FlushOrSync([e EXCEPT !.lf[a] = w.o], c, f)}})
            : w \in {LogFileWrite(e.lf[a], LogEntry(ts, key, <<>>))}})

\* Bitcask.Delete
BitcaskDelete(e, c, key, ts, f) ==
    IF key \notin DOMAIN e.keyDir THEN [e |-> e, err |-> "key not found", hit |-> FALSE]
    ELSE
        LET a == e.activeFile
        IN  The({
                IF w.err # "nil" THEN [e |-> e, err |-> w.err, hit |-> FALSE]
                ELSE The({
                    IF fs.err # "nil" THEN fs
                    ELSE [e |-> [fs.e EXCEPT !.keyDir = KeyDirDelete(fs.e.keyDir, key)],
                          err |-> "nil", hit |-> FALSE]
                    : fs \in {FlushOrSync([e EXCEPT !.lf[a] = w.o], c, f)}})
                : w \in {LogFileWrite(e.lf[a], LogEntry(ts, key, <<>>))}})

\* Get, after the lookup in the key directory gave kde: find the file, read the value.
ReadValue(e, kde) ==
    IF kde.FileID # e.activeFile /\ kde.FileID \notin e.readOnlyFiles
        THEN [err |-> "log file not found", value |-> <<>>]
    ELSE LogFileRead(e.lf[kde.FileID], e.disk[kde.FileID], kde.ValuePos, kde.ValueSize)

\* Bitcask.Get
BitcaskGet(e, key) ==
    IF key \notin DOMAIN e.keyDir THEN [err |-> "key not found", value |-> <<>>]
    ELSE ReadValue(e, e.keyDir[key])

\* Bitcask.Keys
BitcaskKeys(e) == DOMAIN e.keyDir

\* Bitcask.Sync
BitcaskSync(e, f) ==
    LET a == e.activeFile
    IN  The({
            [e |-> [e EXCEPT !.lf[a] = sy.o, !.disk[a] = sy.file], err |-> sy.err,
             hit |-> sy.hit]
            : sy \in {LogFileSync(e.lf[a], e.disk[a], f.at = "flush", f.n,
                                  f.at = "sync")}})

\* LogFile.Close: flush the writer, close the handle (an error when it is closed already).
LogFileClose(o, file) ==
    The({
        IF fl.err # "nil" THEN fl
        ELSE IF fl.o.closed THEN [fl EXCEPT !.err = "io"]
        ELSE [fl EXCEPT !.o.closed = TRUE]
        : fl \in {IF o.readOnly
                  THEN [err |-> "nil", o |-> o, file |-> file, hit |-> FALSE]
                  ELSE WriterFlush(o, file, FALSE, 0)}})

\* Bitcask.Close.  The read-only files are closed in the order the map yields them;
\* done is the set of them closed before the first one whose Close fails.
BitcaskClose(e, done) ==
    LET a == e.activeFile
    IN  The({
            LET e1 == [e EXCEPT !.lf[a] = ca.o, !.disk[a] = ca.file]
            IN  IF ca.err # "nil" THEN [e |-> e1, err |-> ca.err, hit |-> FALSE]
                ELSE The({
                    [e |-> [e1 EXCEPT !.lf = [id \in DOMAIN e1.lf |->
                                                IF id \in (IF bad = {} THEN e1.readOnlyFiles
                                                           ELSE done)
                                                THEN LogFileClose(e1.lf[id], e1.disk[id]).o
                                                ELSE e1.lf[id]]],
                     err |-> IF bad = {} THEN "nil" ELSE "io", hit |-> FALSE]
                    : bad \in {{id \in e1.readOnlyFiles :
                                   LogFileClose(e1.lf[id], e1.disk[id]).err # "nil"}}})
            : ca \in {LogFileClose(e.lf[a], e.disk[a])}})

\* The orders in which Close can come to fail: any set of read-only files whose Close
\* succeeds can have been closed before.
CloseOrders(e) ==
    LET a == e.activeFile
    IN  The({
            IF ca.err # "nil" THEN {{}}
            ELSE The({IF bad = {} THEN {{}} ELSE SUBSET (e.readOnlyFiles \ bad)
                      : bad \in {{id \in e.readOnlyFiles :
                                     LogFileClose(IF id = a THEN ca.o ELSE e.lf[id],
                                                  e.disk[id]).err # "nil"}}})
            : ca \in {LogFileClose(e.lf[a], e.disk[a])}})

(***************************************************************************)
(* Recovery (bitcask.go 99-139, 177-211).                                  *)
(***************************************************************************)
EmptyKeyDir == [x \in {} |-> 0]

\* Bitcask.rebuildKeyDir from offset pos on: replay the records of the file id.
RECURSIVE rebuildKeyDir(_, _, _, _)
rebuildKeyDir(data, id, kd, pos) ==
    The({
        IF r.err # "nil"
        THEN [err |-> IF r.err = "EOF" THEN "nil" ELSE r.err, keyDir |-> kd]
        ELSE rebuildKeyDir(data, id,
                 IF r.entry.ValueSize = 0 THEN KeyDirDelete(kd, r.entry.Key)
                 ELSE Ext(kd, r.entry.Key,
                          [FileID |-> id, ValueSize |-> r.entry.ValueSize,
                           ValuePos |-> pos + HeaderSize + r.entry.KeySize,
                           Timestamp |-> r.entry.Timestamp]),
                 r.nextPos)
        : r \in {ReadEntry(data, pos)}})

\* Bitcask.loadFiles: the files of ids, in ascending order of id.
RECURSIVE loadFiles(_, _)
loadFiles(e, ids) ==
    IF ids = {} THEN [e |-> e, err |-> "nil", hit |-> FALSE]
    ELSE
        LET id == CHOOSE x \in ids : \A y \in ids : x <= y
        IN  The({
                IF nf.err # "nil" THEN [e |-> e, err |-> nf.err, hit |-> FALSE]
                ELSE The({
                    IF rb.err # "nil" THEN [e |-> e1, err |-> rb.err, hit |-> FALSE]
                    ELSE loadFiles(e1, ids \ {id})
                    : e1 \in {[e EXCEPT !.lf = Ext(e.lf, id, nf.o),
                                        !.readOnlyFiles = e.readOnlyFiles \cup {id},
                                        !.keyDir = rb.keyDir]}})
                : nf \in {NewLogFile(e.disk, id, TRUE, FALSE)},
                  rb \in {rebuildKeyDir(e.disk[id].data, id, e.keyDir, 0)}})

NoEngine(d) ==
    [disk |-> d, keyDir |-> EmptyKeyDir, activeFile |-> NoFile, readOnlyFiles |-> {},
     lf |-> [x \in {} |-> 0]]

\* Open on the directory d.  fail: the creation of the active file fails.
BitcaskOpen(d, fail) ==
    The({IF lo.err # "nil" THEN lo ELSE createActiveFile(lo.e, fail)
         : lo \in {loadFiles(NoEngine(d), DOMAIN d)}})

(***************************************************************************)
(* The state machine.  One action per call of the engine's interface; the  *)
(* environment ends the process (Crash) and makes I/O calls fail.          *)
(***************************************************************************)
\* A write that fails has put this many bytes of the buffer into the file: none, a
\* part of the header, the header without the key and the value.
PartialWrites == {0, 1, 12}

\* The I/O errors a call can meet: where, and after how many bytes for a flush.
Faults ==
    {NoFault}
        \cup {[at |-> a, n |-> 0] : a \in {"rotate.sync", "rotate.open", "sync", "open"}}
        \cup {[at |-> "flush", n |-> i] : i \in PartialWrites}

\* The injected error strikes, and the budget allows it.
FaultOK(f, hit) == IF f = NoFault THEN TRUE ELSE hit /\ nfaults < MaxFaults

\* What Get returns for every key.
View(e) == [k \in Keys |-> BitcaskGet(e, k)]

NoShut == [how |-> "none", view |-> [k \in Keys |-> [err |-> "nil", value |-> <<>>]],
           keyDir |-> EmptyKeyDir]
NoWrite == [kind |-> Never, v |-> <<>>]

Return(op, err) == [op |-> op, err |-> err]

\* time.Now().Unix() of a call (operations.go 22, 100).
Now == CHOOSE ts \in Timestamps : TRUE

\* A goroutine that is in no call.
Idle == [pc |-> "idle", op |-> "none", key |-> <<>>, value |-> <<>>, pos |-> 0,
         kde |-> <<>>, res |-> [err |-> "nil", value |-> <<>>], seen |-> {}]

SetEngine(e) ==
    /\ disk' = e.disk
    /\ keyDir' = e.keyDir
    /\ activeFile' = e.activeFile
    /\ readOnlyFiles' = e.readOnlyFiles
    /\ lf' = e.lf

\* No LogFile is under test on its own, no tree has been constructed.
NoRead == [pos |-> NoFile, err |-> "none", entry |-> <<>>, nextPos |-> 0]
NoCodec == [o |-> <<>>, file |-> <<>>, log |-> <<>>, got |-> NoRead, cut |-> FALSE]
NoTree == [root |-> 0, degree |-> 0, nodes |-> <<>>, arrays |-> <<>>]
NoRef == <<>>

\* The engine after Open on an empty directory.
EngineInit ==
    /\ cfg \in [MaxFileSize : MaxFileSizes, SyncWrites : BOOLEAN]
    /\ \E o \in {BitcaskOpen([x \in {} |-> 0], FALSE)} :
           /\ disk = o.e.disk
           /\ keyDir = o.e.keyDir
           /\ activeFile = o.e.activeFile
           /\ readOnlyFiles = o.e.readOnlyFiles
           /\ lf = o.e.lf
    /\ status = "open"
    /\ ret = Return("open", "nil")
    /\ last = [k \in Keys |-> NoWrite]
    /\ mine = {}
    /\ shut = NoShut
    /\ nfaults = 0
    /\ ncalls = 0
    /\ lost = FALSE
    /\ th = [t \in Threads |-> Idle]
    /\ mu = [writer |-> NoThread, readers |-> {}]

Init ==
    /\ EngineInit
    /\ codec = NoCodec
    /\ tree = NoTree
    /\ ref = NoRef

Put(key, value, ts, f) ==
    /\ status = "open"
    /\ ncalls < MaxCalls
    /\ NeedsRotation(Eng, cfg) => Cardinality(DOMAIN disk) < MaxFiles
    /\ f # NoFault => nfaults < MaxFaults
    /\ \E r \in {BitcaskPut(Eng, cfg, key, value, ts, f)} :
           /\ FaultOK(f, r.hit)
           /\ SetEngine(r.e)
           /\ ret' = Return("put", r.err)
           /\ last' = IF r.err = "nil" THEN [last EXCEPT ![key] = [kind |-> "put", v |-> value]]
                      ELSE last
           /\ mine' = IF r.err = "nil" THEN mine \cup {key} ELSE mine
           /\ nfaults' = IF r.hit THEN nfaults + 1 ELSE nfaults
    /\ ncalls' = ncalls + 1
    /\ shut' = NoShut
    /\ UNCHANGED <<status, cfg, lost, th, mu, codecVars, treeVars>>

Delete(key, ts, f) ==
    /\ status = "open"
    /\ ncalls < MaxCalls
    /\ f # NoFault => nfaults < MaxFaults
    /\ \E r \in {BitcaskDelete(Eng, cfg, key, ts, f)} :
           /\ FaultOK(f, r.hit)
           /\ SetEngine(r.e)
           /\ ret' = Return("delete", r.err)
           /\ last' = IF r.err = "nil" THEN [last EXCEPT ![key] = [kind |-> Deleted, v |-> <<>>]]
                      ELSE last
           /\ mine' = IF r.err = "nil" THEN mine \cup {key} ELSE mine
           /\ nfaults' = IF r.hit THEN nfaults + 1 ELSE nfaults
    /\ ncalls' = ncalls + 1
    /\ shut' = NoShut
    /\ UNCHANGED <<status, cfg, lost, th, mu, codecVars, treeVars>>

\* Get and Keys change nothing of the engine; what they return is BitcaskGet(Eng, key)
\* and BitcaskKeys(Eng) of the state they are called in.
Get(key) ==
    /\ status = "open"
    /\ BitcaskGet(Eng, key).err \in {"nil", "key not found", "log file not found", "io"}
    /\ UNCHANGED vars

KeysCall ==
    /\ status = "open"
    /\ BitcaskKeys(Eng) \subseteq Keys
    /\ UNCHANGED vars

SyncCall(f) ==
    /\ status = "open"
    /\ ncalls < MaxCalls
    /\ ncalls' = ncalls + 1
    /\ f # NoFault => nfaults < MaxFaults
    /\ \E r \in {BitcaskSync(Eng, f)} :
           /\ FaultOK(f, r.hit)
           /\ SetEngine(r.e)
           /\ ret' = Return("sync", r.err)
           /\ nfaults' = IF r.hit THEN nfaults + 1 ELSE nfaults
    /\ shut' = NoShut
    /\ UNCHANGED <<status, cfg, last, mine, lost, th, mu, codecVars, treeVars>>

Close(done) ==
    /\ status = "open"
    /\ done \in CloseOrders(Eng)
    /\ \E r \in {BitcaskClose(Eng, done)} :
           /\ SetEngine(r.e)
           /\ ret' = Return("close", r.err)
           /\ status' = IF r.err = "nil" THEN "closed" ELSE "open"
           /\ shut' = IF r.err = "nil"
                      THEN [how |-> "close", view |-> View(Eng), keyDir |-> keyDir]
                      ELSE NoShut
    /\ UNCHANGED <<cfg, last, mine, nfaults, ncalls, lost, th, mu, codecVars, treeVars>>

\* The process ends without Close, at worst because the power fails: the engine and
\* what its writers hold are gone, and the file id keeps cut of its bytes, no fewer
\* than an fsync has made durable.  Losing bytes of a file counts as a fault.
Crash(id, cut) ==
    /\ status = "open"
    /\ id \in DOMAIN disk
    /\ cut \in disk[id].durable .. Len(disk[id].data)
    /\ cut < Len(disk[id].data) => nfaults < MaxFaults
    /\ status' = "down"
    /\ SetEngine(NoEngine([disk EXCEPT ![id].data = SubSeq(disk[id].data, 1, cut)]))
    /\ ret' = Return("crash", "nil")
    /\ shut' = [NoShut EXCEPT !.how = "crash"]
    /\ mine' = {}
    /\ nfaults' = IF cut < Len(disk[id].data) THEN nfaults + 1 ELSE nfaults
    /\ lost' = (lost \/ cut < Len(disk[id].data))
    /\ UNCHANGED <<cfg, last, ncalls, th, mu, codecVars, treeVars>>

Open(f) ==
    /\ status \in {"down", "closed"}
    /\ Cardinality(DOMAIN disk) < MaxFiles
    /\ f \in {NoFault, [at |-> "open", n |-> 0]}
    /\ f # NoFault => nfaults < MaxFaults
    /\ \E r \in {BitcaskOpen(disk, f.at = "open")} :
           /\ FaultOK(f, r.hit)
           /\ SetEngine(IF r.err = "nil" THEN r.e ELSE NoEngine(disk))
           /\ status' = IF r.err = "nil" THEN "open" ELSE "down"
           /\ ret' = Return("open", r.err)
           /\ nfaults' = IF r.hit THEN nfaults + 1 ELSE nfaults
    /\ mine' = {}
    /\ UNCHANGED <<cfg, last, shut, ncalls, lost, th, mu, codecVars, treeVars>>

Next ==
    \/ \E kv \in Writes, ts \in Timestamps, f \in Faults : Put(kv[1], kv[2], ts, f)
    \/ \E key \in Keys, ts \in Timestamps, f \in Faults : Delete(key, ts, f)
    \/ \E key \in Keys : Get(key)
    \/ KeysCall
    \/ \E f \in Faults : SyncCall(f)
    \/ \E done \in SUBSET (DOMAIN disk) : Close(done)
    \/ \E id \in DOMAIN disk : \E cut \in 0 .. Len(disk[id].data) : Crash(id, cut)
    \/ \E f \in Faults : Open(f)

Spec == Init /\ [][Next]_vars

(***************************************************************************)
(* Concurrent callers.  Every goroutine of Threads calls the engine; a     *)
(* call takes bc.mu (Lock or RLock), runs the body of the handler step by  *)
(* step and releases bc.mu when it returns (the deferred Unlock or         *)
(* RUnlock).  th[t].pc is where goroutine t is:                            *)
(*   "idle", "Lock", "RLock" (blocked on bc.mu), the steps of the body,    *)
(*   "Unlock", "RUnlock" (returning).                                      *)
(* th[t].seen is history: what Get of th[t].key could return at some       *)
(* moment between the call of t's Get and now.                             *)
(***************************************************************************)
\* sync.RWMutex: Lock goes through when nobody holds the mutex.
CanLock(m) == m.writer = NoThread /\ m.readers = {}

\* An RLock that does not wait for the writer.
CanRLockAlways(m) == m.writer \in Threads \cup {NoThread}

\* sync.RWMutex: RLock goes through when no writer holds the mutex.
CanRLock(m) == m.writer = NoThread

WriteSteps == {"put.rotate", "put.write", "put.index", "delete.write", "delete.index",
               "close", "Unlock"}
ReadSteps == {"get.lookup", "get.read", "keys", "sync", "RUnlock"}

\* What Get returns for a key whose last write that took effect is w.
Committed(w) ==
    IF w.kind = "put" THEN [err |-> "nil", value |-> w.v]
    ELSE [err |-> "key not found", value |-> <<>>]

\* Goroutine t calls op: it goes for bc.mu.
Call(t, op, key, value) ==
    /\ status = "open"
    /\ th[t].pc = "idle"
    /\ op \in {"put", "delete", "sync"} => ncalls < MaxCalls
    /\ ncalls' = IF op \in {"put", "delete", "sync"} THEN ncalls + 1 ELSE ncalls
    /\ th' = [th EXCEPT ![t] =
                  [Idle EXCEPT !.pc = IF op \in {"put", "delete", "close"} THEN "Lock"
                                      ELSE "RLock",
                               !.op = op, !.key = key, !.value = value,
                               !.seen = IF op = "get" THEN {Committed(last[key])} ELSE {}]]
    /\ UNCHANGED <<disk, status, cfg, keyDir, activeFile, readOnlyFiles, lf, ret, last,
                   mine, shut, nfaults, lost, mu, codecVars, treeVars>>

\* bc.mu.Lock() returns.
Lock(t) ==
    /\ th[t].pc = "Lock"
    /\ CanLock(mu)
    /\ mu' = [mu EXCEPT !.writer = t]
    /\ th' = [th EXCEPT ![t].pc = CASE th[t].op = "put" -> "put.rotate"
                                    [] th[t].op = "delete" -> "delete.write"
                                    [] OTHER -> "close"]
    /\ UNCHANGED <<disk, status, cfg, keyDir, activeFile, readOnlyFiles, lf, ret, last,
                   mine, shut, nfaults, ncalls, lost, codecVars,
                   treeVars>>

\* bc.mu.RLock() returns.
RLock(t) ==
    /\ th[t].pc = "RLock"
    /\ CanRLock(mu)
    /\ mu' = [mu EXCEPT !.readers = @ \cup {t}]
    /\ th' = [th EXCEPT ![t].pc = CASE th[t].op = "get" -> "get.lookup"
                                    [] th[t].op = "keys" -> "keys"
                                    [] OTHER -> "sync"]
    /\ UNCHANGED <<disk, status, cfg, keyDir, activeFile, readOnlyFiles, lf, ret, last,
                   mine, shut, nfaults, ncalls, lost, codecVars,
                   treeVars>>

\* The body steps leave these alone.
BodyUnchanged ==
    UNCHANGED <<cfg, ret, mine, shut, ncalls, lost, mu, codecVars, treeVars>>

\* The injected error f strikes in this step (hit) or there is none; it is counted.
Struck(f, hit) ==
    /\ f # NoFault => nfaults < MaxFaults
    /\ FaultOK(f, hit)
    /\ nfaults' = IF hit THEN nfaults + 1 ELSE nfaults

\* A return path that leaves without the unlock when the call fails.
ReturnsErrorKeepsLock(t, err) ==
    [th[t] EXCEPT !.pc = IF err # "nil" THEN "idle"
                         ELSE IF th[t].pc \in WriteSteps THEN "Unlock" ELSE "RUnlock",
                  !.res = [err |-> err, value |-> <<>>]]

\* t's call returns err at the end of this step.
Returns(t, err) == [th[t] EXCEPT !.pc = IF th[t].pc \in WriteSteps THEN "Unlock"
                                        ELSE "RUnlock",
                                 !.res = [err |-> err, value |-> <<>>]]

\* The goroutines after a write of key took effect: those inside a Get of key have
\* one more value they can return.
Publish(t, me, key, w) ==
    [u \in Threads |->
        IF u = t THEN me
        ELSE IF th[u].op = "get" /\ th[u].key = key /\ th[u].pc # "idle"
            THEN [th[u] EXCEPT !.seen = @ \cup {Committed(w)}]
        ELSE th[u]]

\* Put, operations.go 13-18: the rotation check and the rotation.
PutRotate(t, f) ==
    /\ th[t].pc = "put.rotate"
    /\ NeedsRotation(Eng, cfg) => Cardinality(DOMAIN disk) < MaxFiles
    /\ \E r \in {IF NeedsRotation(Eng, cfg) THEN rotateActiveFile(Eng, f)
                ELSE [e |-> Eng, err |-> "nil", hit |-> FALSE]} :
           /\ Struck(f, r.hit)
           /\ SetEngine(r.e)
           /\ th' = [th EXCEPT ![t] = IF r.err # "nil" THEN Returns(t, r.err)
                                      ELSE [th[t] EXCEPT !.pc = "put.write"]]
    /\ UNCHANGED <<status, last>>
    /\ BodyUnchanged

\* Put, operations.go 20-45: the record is written and flushed or synced.
PutWrite(t, f) ==
    /\ th[t].pc = "put.write"
    /\ \E w \in {LogFileWrite(lf[activeFile], LogEntry(Now, th[t].key, th[t].value))} :
       \E fs \in {FlushOrSync([Eng EXCEPT !.lf[activeFile] = w.o], cfg, f)} :
           IF w.err # "nil"
           THEN /\ Struck(f, FALSE)
                /\ th' = [th EXCEPT ![t] = Returns(t, w.err)]
                /\ UNCHANGED <<disk, keyDir, activeFile, readOnlyFiles, lf>>
           ELSE /\ Struck(f, fs.hit)
                /\ SetEngine(fs.e)
                /\ th' = [th EXCEPT ![t] = IF fs.err # "nil" THEN Returns(t, fs.err)
                                           ELSE [th[t] EXCEPT !.pc = "put.index",
                                                              !.pos = w.valuePos]]
    /\ UNCHANGED <<status, last>>
    /\ BodyUnchanged

\* Put, operations.go 47-55: the key directory gets the entry, Put returns nil.
PutIndex(t) ==
    /\ th[t].pc = "put.index"
    /\ keyDir' = KeyDirPut(Eng, th[t].key, LogEntry(Now, th[t].key, th[t].value),
                           th[t].pos)
    /\ last' = [last EXCEPT ![th[t].key] = [kind |-> "put", v |-> th[t].value]]
    /\ th' = Publish(t, Returns(t, "nil"), th[t].key, last'[th[t].key])
    /\ UNCHANGED <<disk, status, activeFile, readOnlyFiles, lf>>
    /\ UNCHANGED nfaults
    /\ BodyUnchanged

\* Delete, operations.go 93-123: the lookup, the tombstone written and flushed or synced.
DeleteWrite(t, f) ==
    /\ th[t].pc = "delete.write"
    /\ \E w \in {LogFileWrite(lf[activeFile], LogEntry(Now, th[t].key, <<>>))} :
       \E fs \in {FlushOrSync([Eng EXCEPT !.lf[activeFile] = w.o], cfg, f)} :
           IF th[t].key \notin DOMAIN keyDir \/ w.err # "nil"
           THEN /\ Struck(f, FALSE)
                /\ th' = [th EXCEPT ![t] =
                             Returns(t, IF th[t].key \notin DOMAIN keyDir
                                        THEN "key not found" ELSE w.err)]
                /\ UNCHANGED <<disk, keyDir, activeFile, readOnlyFiles, lf>>
           ELSE /\ Struck(f, fs.hit)
                /\ SetEngine(fs.e)
                /\ th' = [th EXCEPT ![t] = IF fs.err # "nil" THEN Returns(t, fs.err)
                                           ELSE [th[t] EXCEPT !.pc = "delete.index"]]
    /\ UNCHANGED <<status, last>>
    /\ BodyUnchanged

\* Delete, operations.go 125-128: the key leaves the key directory, Delete returns nil.
DeleteIndex(t) ==
    /\ th[t].pc = "delete.index"
    /\ keyDir' = KeyDirDelete(keyDir, th[t].key)
    /\ last' = [last EXCEPT ![th[t].key] = [kind |-> Deleted, v |-> <<>>]]
    /\ th' = Publish(t, Returns(t, "nil"), th[t].key, last'[th[t].key])
    /\ UNCHANGED <<disk, status, activeFile, readOnlyFiles, lf>>
    /\ UNCHANGED nfaults
    /\ BodyUnchanged

\* Get, operations.go 63-66: the lookup in the key directory.
GetLookup(t) ==
    /\ th[t].pc = "get.lookup"
    /\ th' = [th EXCEPT ![t] = IF th[t].key \in DOMAIN keyDir
                               THEN [th[t] EXCEPT !.pc = "get.read",
                                                  !.kde = keyDir[th[t].key]]
                               ELSE Returns(t, "key not found")]
    /\ UNCHANGED <<disk, status, keyDir, activeFile, readOnlyFiles, lf, last>>
    /\ UNCHANGED nfaults
    /\ BodyUnchanged

\* Get, operations.go 68-85: the file is found and the value read.
GetRead(t) ==
    /\ th[t].pc = "get.read"
    /\ th' = [th EXCEPT ![t] = [th[t] EXCEPT !.pc = "RUnlock",
                                             !.res = ReadValue(Eng, th[t].kde),
                                             !.kde = <<>>]]
    /\ UNCHANGED <<disk, status, keyDir, activeFile, readOnlyFiles, lf, last>>
    /\ UNCHANGED nfaults
    /\ BodyUnchanged

\* Keys, bitcask.go 91-96.
KeysBody(t) ==
    /\ th[t].pc = "keys"
    /\ BitcaskKeys(Eng) \subseteq Keys
    /\ th' = [th EXCEPT ![t] = Returns(t, "nil")]
    /\ UNCHANGED <<disk, status, keyDir, activeFile, readOnlyFiles, lf, last>>
    /\ UNCHANGED nfaults
    /\ BodyUnchanged

\* Sync, operations.go 136-140.
SyncBody(t, f) ==
    /\ th[t].pc = "sync"
    /\ \E r \in {BitcaskSync(Eng, f)} :
           /\ Struck(f, r.hit)
           /\ SetEngine(r.e)
           /\ th' = [th EXCEPT ![t] = Returns(t, r.err)]
    /\ UNCHANGED <<status, last>>
    /\ BodyUnchanged

\* Close, bitcask.go 69-83.
CloseBody(t, done) ==
    /\ th[t].pc = "close"
    /\ done \in CloseOrders(Eng)
    /\ \E r \in {BitcaskClose(Eng, done)} :
           /\ SetEngine(r.e)
           /\ status' = IF r.err = "nil" THEN "closed" ELSE status
           /\ th' = [th EXCEPT ![t] = Returns(t, r.err)]
    /\ UNCHANGED last
    /\ UNCHANGED nfaults
    /\ BodyUnchanged

\* The deferred bc.mu.Unlock() or bc.mu.RUnlock(): the call returns.
Unlock(t) ==
    /\ th[t].pc \in {"Unlock", "RUnlock"}
    /\ mu' = IF th[t].pc = "Unlock" THEN [mu EXCEPT !.writer = NoThread]
             ELSE [mu EXCEPT !.readers = @ \ {t}]
    /\ th' = [th EXCEPT ![t] = Idle]
    /\ UNCHANGED <<disk, status, cfg, keyDir, activeFile, readOnlyFiles, lf, ret, last,
                   mine, shut, nfaults, ncalls, lost, codecVars,
                   treeVars>>

ConcNext ==
    \E t \in Threads :
        \/ \E kv \in Writes : Call(t, "put", kv[1], kv[2])
        \/ \E key \in Keys : Call(t, "delete", key, <<>>)
        \/ \E key \in Keys : Call(t, "get", key, <<>>)
        \/ \E op \in {"keys", "sync", "close"} : Call(t, op, <<>>, <<>>)
        \/ Lock(t)
        \/ RLock(t)
        \/ PutRotate(t, NoFault)
        \/ PutWrite(t, NoFault)
        \/ PutIndex(t)
        \/ DeleteWrite(t, NoFault)
        \/ DeleteIndex(t)
        \/ GetLookup(t)
        \/ GetRead(t)
        \/ KeysBody(t)
        \/ SyncBody(t, NoFault)
        \/ \E done \in SUBSET (DOMAIN disk) : CloseBody(t, done)
        \/ Unlock(t)

SpecConc == Init /\ [][ConcNext]_vars

(***************************************************************************)
(* Concurrent callers whose I/O can fail, under the scheduling the Go      *)
(* runtime gives: a goroutine that can take a step of its call takes it    *)
(* (WF), and a goroutine waiting for bc.mu gets it if it is free again and *)
(* again (SF): sync.RWMutex holds back new readers while a writer waits,   *)
(* wakes the waiting readers when the writer unlocks, and its sync.Mutex   *)
(* hands the lock to a waiter that has starved.  Callers need not call.    *)
(***************************************************************************)
\* A step of the body of t's call, or its deferred unlock.
Step(t) ==
    \/ \E f \in Faults : PutRotate(t, f)
    \/ \E f \in Faults : PutWrite(t, f)
    \/ PutIndex(t)
    \/ \E f \in Faults : DeleteWrite(t, f)
    \/ DeleteIndex(t)
    \/ GetLookup(t)
    \/ GetRead(t)
    \/ KeysBody(t)
    \/ \E f \in Faults : SyncBody(t, f)
    \/ \E done \in SUBSET (DOMAIN disk) : CloseBody(t, done)
    \/ Unlock(t)

MaxLiveCalls == 2       \* calls of Put, Delete and Sync under SpecLive

LiveNext ==
    \E t \in Threads :
        \/ \E kv \in Writes : ncalls < MaxLiveCalls /\ Call(t, "put", kv[1], kv[2])
        \/ \E key \in Keys : ncalls < MaxLiveCalls /\ Call(t, "delete", key, <<>>)
        \/ \E key \in Keys : Call(t, "get", key, <<>>)
        \/ \E op \in {"keys", "sync", "close"} :
               (op = "sync" => ncalls < MaxLiveCalls) /\ Call(t, op, <<>>, <<>>)
        \/ Lock(t)
        \/ RLock(t)
        \/ Step(t)

Fairness ==
    \A t \in Threads :
        /\ WF_vars(Step(t))
        /\ SF_vars(Lock(t))
        /\ SF_vars(RLock(t))

SpecLive == Init /\ [][LiveNext]_vars /\ Fairness

(***************************************************************************)
(* The codec on its own: one LogFile that records are written to and       *)
(* decoded from (logfile.go 112-153, 168-218).  codec.log is history: the  *)
(* records written, with the offset each was written at; codec.got is what *)
(* the last ReadEntry returned, with the offset it was called with.  The   *)
(* file can lose the end of its last record, as a crash cuts it.           *)
(***************************************************************************)
MaxRecords == 2         \* records written to the file

CodecKeys == {<<>>, <<97>>, <<98, 99>>}
CodecValues == {<<>>, <<2>>, <<2, 3>>}
CodecTimestamps == {0, 16909060}

InitCodec ==
    /\ EngineInit
    /\ ~cfg.SyncWrites
    /\ \E nf \in {NewLogFile([x \in {} |-> 0], 1, FALSE, FALSE)} :
           codec = [NoCodec EXCEPT !.o = nf.o, !.file = nf.d[1]]
    /\ tree = NoTree
    /\ ref = NoRef

CodecUnchanged ==
    UNCHANGED <<disk, status, cfg, keyDir, activeFile, readOnlyFiles, lf, ret, last, mine,
                shut, nfaults, ncalls, lost, th, mu, treeVars>>

\* LogFile.Write of the entry Put or Delete builds, and the Flush that follows it.
WriteEntry(ts, key, value) ==
    /\ ~codec.cut
    /\ Len(codec.log) < MaxRecords
    /\ \E w \in {LogFileWrite(codec.o, LogEntry(ts, key, value))} :
       \E fl \in {LogFileFlush(w.o, codec.file, FALSE, 0)} :
           /\ w.err = "nil" /\ fl.err = "nil"
           /\ codec' = [codec EXCEPT
                            !.o = fl.o, !.file = fl.file,
                            !.log = Append(@, [pos |-> codec.o.size,
                                               entry |-> LogEntry(ts, key, value),
                                               valuePos |-> w.valuePos]),
                            !.got = NoRead]
    /\ CodecUnchanged

\* LogFile.ReadEntry(pos).
ReadEntryAt(pos) ==
    /\ codec' = [codec EXCEPT
                     !.got = The({[pos |-> pos, err |-> r.err, entry |-> r.entry,
                                   nextPos |-> r.nextPos]
                                  : r \in {ReadEntry(codec.file.data, pos)}})]
    /\ CodecUnchanged

\* The file keeps n of its bytes: the last record is cut short, not away.
CutTail(n) ==
    /\ ~codec.cut
    /\ codec.log # <<>>
    /\ n > codec.log[Len(codec.log)].pos
    /\ n < Len(codec.file.data)
    /\ codec' = [codec EXCEPT !.file.data = SubSeq(@, 1, n), !.cut = TRUE, !.got = NoRead]
    /\ CodecUnchanged

\* The offsets ReadEntry is called with: where a record was written, and the end.
ReadOffsets == {codec.log[i].pos : i \in DOMAIN codec.log} \cup {Len(codec.file.data)}

CodecNext ==
    \/ \E ts \in CodecTimestamps, key \in CodecKeys, value \in CodecValues :
           WriteEntry(ts, key, value)
    \/ \E pos \in ReadOffsets : ReadEntryAt(pos)
    \/ \E n \in 0 .. Len(codec.file.data) : CutTail(n)

SpecCodec == InitCodec /\ [][CodecNext]_vars

(***************************************************************************)
(* The B+ tree (src/internal/bplustree/tree.go).  Nodes live in tree.nodes *)
(* and a *Node is an index into it, Nil for the nil pointer.  A Go slice   *)
(* is a view of an array: [arr, off, len, cap], the array in tree.arrays,  *)
(* where the view starts, its length and how far it can grow in place.     *)
(* Slicing (s[:m], s[m:]) makes views of the same array; append and        *)
(* slices.Insert write into the array when the capacity allows and move to *)
(* a new array when it does not.  Keys are strings: a key is the number of *)
(* its letter (1 for "a", 2 for "b", ...), which orders them as Go orders  *)
(* the strings, and 0 is the empty string.  A value is the number n of     *)
(* "vn", 0 the empty string.  A nil pointer dereference ends the program:  *)
(* tree.panicked.                                                          *)
(***************************************************************************)
MaxRun == 11            \* the Puts of a run of keys in ascending or descending order
MaxFree == 3            \* the Puts and Deletes that follow in any order
FreeKeys == 1 .. 5      \* their keys, "a" to "e"
Degrees == {3, 4}       \* NewBPlusTree(3), NewBPlusTree(4)

Nil == 0
NilSlice == [arr |-> 0, off |-> 0, len |-> 0, cap |-> 0]

\* s[i]
At(t, s, i) == t.arrays[s.arr][s.off + i + 1]

\* The elements of s, in order.
Elems(t, s) == [j \in 1 .. s.len |-> t.arrays[s.arr][s.off + j]]

\* s[lo:hi]
SubSlice(s, lo, hi) == [arr |-> s.arr, off |-> s.off + lo, len |-> hi - lo, cap |-> s.cap - lo]

\* runtime.growslice for the few elements of a node: the capacity doubles, or
\* becomes the length needed when that is more.
GrowCap(oldCap, newLen) == IF newLen > 2 * oldCap THEN newLen ELSE 2 * oldCap

\* A new array of capacity c that starts with elems, and the slice of elems in it.
NewArray(t, elems, c) ==
    [t |-> [t EXCEPT !.arrays = Append(@, [j \in 1 .. c |-> IF j <= Len(elems) THEN elems[j]
                                                          ELSE Nil])],
     s |-> [arr |-> Len(t.arrays) + 1, off |-> 0, len |-> Len(elems), cap |-> c]]

\* elems written into the array of s from s[0] on; s with their length.
InPlace(t, s, elems) ==
    [t |-> [t EXCEPT !.arrays[s.arr] =
                        [j \in DOMAIN @ |-> IF j > s.off /\ j <= s.off + Len(elems)
                                            THEN elems[j - s.off] ELSE @[j]]],
     s |-> [s EXCEPT !.len = Len(elems)]]

InsertAt(elems, i, x) == SubSeq(elems, 1, i) \o <<x>> \o SubSeq(elems, i + 1, Len(elems))
RemoveAt(elems, i) == SubSeq(elems, 1, i) \o SubSeq(elems, i + 2, Len(elems))

\* slices.Insert(s, i, x), and append(s, x) for i = len(s).
SliceInsert(t, s, i, x) ==
    IF s.len + 1 > s.cap
    THEN NewArray(t, InsertAt(Elems(t, s), i, x), GrowCap(s.cap, s.len + 1))
    ELSE InPlace(t, s, InsertAt(Elems(t, s), i, x))

\* append(s[:i], s[i+1:]...): the elements behind i move down, the last stays where
\* it was, beyond the new length.
SliceRemove(t, s, i) == InPlace(t, s, RemoveAt(Elems(t, s), i))

\* slices.Delete(s, i, i+1): as above, and the element that fell out is zeroed.
SlicesDelete(t, s, i) ==
    The({[t |-> r.t, s |-> [r.s EXCEPT !.len = s.len - 1]]
         : r \in {InPlace(t, s, RemoveAt(Elems(t, s), i) \o <<Nil>>)}})

\* &Node{...}: the node is added to the heap, the new node is the last one.
NewNode(t, keys, vals, children, isLeaf) ==
    [t EXCEPT !.nodes = Append(@, [keys |-> keys, vals |-> vals, children |-> children,
                                   parent |-> Nil, isLeaf |-> isLeaf, next |-> Nil])]

\* NewBPlusTree(degree)
NewBPlusTree(degree) ==
    [root |-> 1, degree |-> degree,
     nodes |-> <<[keys |-> NilSlice, vals |-> NilSlice, children |-> NilSlice,
                  parent |-> Nil, isLeaf |-> TRUE, next |-> Nil]>>,
     arrays |-> <<>>, panicked |-> FALSE]

\* The child of the internal node n that Node.Get and Node.findLeaf descend into for
\* key: the first child i whose bounds hold key, "" below child 0 and no bound
\* above the last child; none when no child's bounds hold it.
NoChild == 0 - 1
ChildFor(t, n, key) ==
    LET nd == t.nodes[n]
        lastChild == nd.children.len - 1
        fits(i) == /\ (IF i # 0 THEN At(t, nd.keys, i - 1) ELSE 0) <= key
                   /\ i # lastChild => key < At(t, nd.keys, i)
        hits == {i \in 0 .. lastChild : fits(i)}
    IN  IF hits = {} THEN NoChild
        ELSE CHOOSE i \in hits : \A j \in hits : i <= j

\* Node.findLeaf.  Nil when no child takes the key; calling it on a nil child panics,
\* as does what Put and Delete do with a nil leaf.
RECURSIVE findLeaf(_, _, _)
findLeaf(t, n, key) ==
    IF n = Nil THEN Nil
    ELSE IF t.nodes[n].isLeaf THEN n
    ELSE The({IF i = NoChild THEN Nil ELSE findLeaf(t, At(t, t.nodes[n].children, i), key)
              : i \in {ChildFor(t, n, key)}})

\* Node.Get: the value and whether the key was found.
Panic == [val |-> 0, ok |-> FALSE, panic |-> TRUE]
NotFound == [val |-> 0, ok |-> FALSE, panic |-> FALSE]

RECURSIVE NodeGet(_, _, _)
NodeGet(t, n, key) ==
    IF n = Nil THEN Panic
    ELSE IF t.nodes[n].isLeaf
    THEN LET nd == t.nodes[n]
             hits == {i \in 0 .. nd.keys.len - 1 : At(t, nd.keys, i) = key}
         IN  IF hits = {} THEN NotFound
             ELSE [val |-> At(t, nd.vals, CHOOSE i \in hits : \A j \in hits : i <= j),
                   ok |-> TRUE, panic |-> FALSE]
    ELSE The({IF i = NoChild THEN NotFound
              ELSE NodeGet(t, At(t, t.nodes[n].children, i), key)
              : i \in {ChildFor(t, n, key)}})

\* BPlusTree.Get
TreeGet(t, key) == NodeGet(t, t.root, key)

\* The indices of s.
Indices(s) == 0 .. s.len - 1

\* Where a loop over s that stops at the first of the indices hits stops; len(s)
\* when it runs to the end.
FirstIndex(s, hits) ==
    IF hits = {} THEN s.len ELSE CHOOSE i \in hits : \A j \in hits : i <= j

\* BPlusTree.Delete: the tree after it and what it returned.
TreeDelete(t, key) ==
    The({
        IF leaf = Nil THEN [t |-> [t EXCEPT !.panicked = TRUE], ok |-> FALSE]
        ELSE The({
            IF keyIndex = t.nodes[leaf].keys.len THEN [t |-> t, ok |-> FALSE]
            ELSE The({
                The({[t |-> [v.t EXCEPT !.nodes[leaf].keys = k.s, !.nodes[leaf].vals = v.s],
                      ok |-> TRUE]
                     : v \in {SliceRemove(k.t, t.nodes[leaf].vals, keyIndex)}})
                : k \in {SliceRemove(t, t.nodes[leaf].keys, keyIndex)}})
            : keyIndex \in {FirstIndex(t.nodes[leaf].keys,
                                       {i \in Indices(t.nodes[leaf].keys) :
                                           At(t, t.nodes[leaf].keys, i) = key})}})
        : leaf \in {findLeaf(t, t.root, key)}})

\* The nodes of t with the parent of every node of children set to p; a nil child
\* panics.
SetParent(t, children, p) ==
    LET cs == {At(t, children, i) : i \in 0 .. children.len - 1}
    IN  IF Nil \in cs THEN [t EXCEPT !.panicked = TRUE]
        ELSE [t EXCEPT !.nodes = [c \in DOMAIN @ |-> IF c \in cs THEN [@[c] EXCEPT !.parent = p]
                                                     ELSE @[c]]]

\* The new root that splitLeaf and splitInternal make above leftNode and rightNode.
NewRoot(t, promoteKey, leftNode, rightNode) ==
    The({
        The({[NewNode(ca.t, ka.s, NilSlice, ca.s, FALSE) EXCEPT
                  !.nodes[leftNode].parent = Len(t.nodes) + 1,
                  !.nodes[rightNode].parent = Len(t.nodes) + 1,
                  !.root = Len(t.nodes) + 1]
             : ca \in {NewArray(ka.t, <<leftNode, rightNode>>, 2)}})
        : ka \in {NewArray(t, <<promoteKey>>, 1)}})

\* insertIntoInternal, tree.go 248-254: the index of the first key above key.
InsertPos(t, parent, key) ==
    FirstIndex(t.nodes[parent].keys,
               {i \in Indices(t.nodes[parent].keys) : key < At(t, t.nodes[parent].keys, i)})

RECURSIVE insertIntoInternal(_, _, _, _, _)
RECURSIVE splitInternal(_, _)

\* BPlusTree.insertIntoInternal
insertIntoInternal(t, parent, key, leftChild, rightChild) ==
    The({
        The({
            The({
                The({
                    The({IF k.s.len > t.degree THEN splitInternal(t2, parent) ELSE t2
                         : t2 \in {[c3.t EXCEPT !.nodes[parent].keys = k.s,
                                                !.nodes[parent].children = c3.s]}})
                    : c3 \in {SliceInsert(c2.t, c2.s, insertPos + 1, rightChild)}})
                : c2 \in {SliceInsert(c1.t, c1.s, insertPos, leftChild)}})
            : c1 \in {SlicesDelete(k.t, t.nodes[parent].children, insertPos)}})
        : insertPos \in {InsertPos(t, parent, key)},
          k \in {SliceInsert(t, t.nodes[parent].keys, InsertPos(t, parent, key), key)}})

\* BPlusTree.splitInternal
splitInternal(t, internal) ==
    LET nd == t.nodes[internal]
        midpoint == nd.keys.len \div 2
        promoteKey == At(t, nd.keys, midpoint)
        leftNode == Len(t.nodes) + 1
        rightNode == Len(t.nodes) + 2
    IN  The({
            IF t3.panicked THEN t3
            ELSE IF nd.parent = Nil THEN NewRoot(t3, promoteKey, leftNode, rightNode)
            ELSE insertIntoInternal([t3 EXCEPT !.nodes[leftNode].parent = nd.parent,
                                               !.nodes[rightNode].parent = nd.parent],
                                    nd.parent, promoteKey, leftNode, rightNode)
            : t3 \in {SetParent(
                        SetParent(
                          NewNode(
                            NewNode(t, SubSlice(nd.keys, 0, midpoint), NilSlice,
                                    SubSlice(nd.children, 0, midpoint + 1), FALSE),
                            SubSlice(nd.keys, midpoint + 1, nd.keys.len), NilSlice,
                            SubSlice(nd.children, midpoint + 1, nd.children.len), FALSE),
                          SubSlice(nd.children, 0, midpoint + 1), leftNode),
                        SubSlice(nd.children, midpoint + 1, nd.children.len), rightNode)}})

\* BPlusTree.splitLeaf
splitLeaf(t, leaf) ==
    LET nd == t.nodes[leaf]
        midpoint == nd.keys.len \div 2
        promoteKey == At(t, nd.keys, midpoint)
        leftNode == Len(t.nodes) + 1
        rightNode == Len(t.nodes) + 2
    IN  The({
            IF nd.parent = Nil THEN NewRoot(t3, promoteKey, leftNode, rightNode)
            ELSE insertIntoInternal([t3 EXCEPT !.nodes[leftNode].parent = nd.parent,
                                               !.nodes[rightNode].parent = nd.parent],
                                    nd.parent, promoteKey, leftNode, rightNode)
            : t3 \in {[NewNode(
                         NewNode(t, SubSlice(nd.keys, 0, midpoint),
                                 SubSlice(nd.vals, 0, midpoint), NilSlice, TRUE),
                         SubSlice(nd.keys, midpoint, nd.keys.len),
                         SubSlice(nd.vals, midpoint, nd.vals.len), NilSlice, TRUE)
                       EXCEPT !.nodes[leftNode].next = rightNode]}})

\* BPlusTree.Put
TreePut(t, key, val) ==
    The({
        IF leaf = Nil THEN [t EXCEPT !.panicked = TRUE]
        ELSE The({
            IF i < t.nodes[leaf].keys.len /\ At(t, t.nodes[leaf].keys, i) = key
            THEN [t EXCEPT !.arrays[t.nodes[leaf].vals.arr][t.nodes[leaf].vals.off + i + 1]
                               = val]
            ELSE The({
                The({
                    The({IF k.s.len > t.degree THEN splitLeaf(t2, leaf) ELSE t2
                         : t2 \in {[v.t EXCEPT !.nodes[leaf].keys = k.s,
                                               !.nodes[leaf].vals = v.s]}})
                    : v \in {SliceInsert(k.t, t.nodes[leaf].vals, i, val)}})
                : k \in {SliceInsert(t, t.nodes[leaf].keys, i, key)}})
            : i \in {FirstIndex(t.nodes[leaf].keys,
                                {j \in Indices(t.nodes[leaf].keys) :
                                    key <= At(t, t.nodes[leaf].keys, j)})}})
        : leaf \in {findLeaf(t, t.root, key)}})

(***************************************************************************)
(* The calls of the tree.  ref is history: the calls of Put and Delete so  *)
(* far, each with its key, the value put and what Delete returned.  The    *)
(* n-th call puts the value "vn".  The keys arrive as a run in ascending   *)
(* order from "a" or in descending order from the MaxRun-th letter,        *)
(* followed by calls with keys of FreeKeys in any order.                   *)
(***************************************************************************)
TreeKeys == 1 .. MaxRun

Ascending(h, n) == \A i \in 1 .. n : h[i].op = "put" /\ h[i].key = i
Descending(h, n) == \A i \in 1 .. n : h[i].op = "put" /\ h[i].key = MaxRun + 1 - i

\* The length of the run that h starts with.
RunLen(h) == Max({n \in 0 .. Len(h) : Ascending(h, n) \/ Descending(h, n)})

\* The run goes on with key, or one more call in any order is within the bound.
CallAllowed(op, key) ==
    \/ /\ op = "put" /\ Len(ref) < MaxRun
       /\ \/ Ascending(ref, Len(ref)) /\ key = Len(ref) + 1
          \/ Descending(ref, Len(ref)) /\ key = MaxRun - Len(ref)
    \/ key \in FreeKeys /\ Len(ref) - RunLen(ref) < MaxFree

InitTree ==
    /\ EngineInit
    /\ ~cfg.SyncWrites
    /\ codec = NoCodec
    /\ \E degree \in Degrees : tree = NewBPlusTree(degree)
    /\ ref = <<>>

TreeUnchanged ==
    UNCHANGED <<disk, status, cfg, keyDir, activeFile, readOnlyFiles, lf, ret, last, mine,
                shut, nfaults, ncalls, lost, th, mu, codecVars>>

TreePutCall(key) ==
    /\ ~tree.panicked
    /\ CallAllowed("put", key)
    /\ tree' = TreePut(tree, key, Len(ref) + 1)
    /\ ref' = Append(ref, [op |-> "put", key |-> key, val |-> Len(ref) + 1, ok |-> TRUE])
    /\ TreeUnchanged

TreeDeleteCall(key) ==
    /\ ~tree.panicked
    /\ CallAllowed("delete", key)
    /\ \E r \in {TreeDelete(tree, key)} :
           /\ tree' = r.t
           /\ ref' = Append(ref, [op |-> "delete", key |-> key, val |-> 0, ok |-> r.ok])
    /\ TreeUnchanged

\* Get changes nothing; what it returns is TreeGet(tree, key).
TreeGetCall(key) ==
    /\ ~tree.panicked
    /\ TreeGet(tree, key).ok \in BOOLEAN
    /\ UNCHANGED vars

TreeNext ==
    \/ \E key \in TreeKeys : TreePutCall(key)
    \/ \E key \in TreeKeys : TreeDeleteCall(key)
    \/ \E key \in TreeKeys : TreeGetCall(key)

SpecTree == InitTree /\ [][TreeNext]_vars

(***************************************************************************)
(* The claims.                                                             *)
(***************************************************************************)
AllOpen == \A id \in DOMAIN lf : ~lf[id].closed

\* C1: while the engine is open and Close was not called, Get of a key whose last
\* successful write by this engine was Put(key, v) returns v, neither an error nor
\* another value, whatever rotations, overwrites and failed calls lie in between.
C1_ReadYourWrites ==
    (status = "open" /\ AllOpen) =>
        \A k \in mine :
            last[k].kind = "put" => BitcaskGet(Eng, k) = [err |-> "nil", value |-> last[k].v]

\* The key <<97>> was written twice, its second record lies behind the first in a
\* segment that a rotation has sealed since, and it is still the live one.
C1_Witness ==
    /\ status = "open" /\ AllOpen
    /\ <<97>> \in mine /\ last[<<97>>] = [kind |-> "put", v |-> <<2, 3>>]
    /\ <<97>> \in DOMAIN keyDir
    /\ keyDir[<<97>>].FileID \in readOnlyFiles \ {activeFile}
    /\ keyDir[<<97>>].ValuePos = 13 + 12 + 1
    /\ SubSeq(disk[keyDir[<<97>>].FileID].data, 1, 13)
           = EncodeEntry(LogEntry(258, <<97>>, <<>>))

\* C2: after calls that all succeeded, Close and then Open give back, for every key,
\* what Get returned just before the Close.
C2_RecoveryIdempotent ==
    (status = "open" /\ ret = Return("open", "nil") /\ shut.how = "close" /\ nfaults = 0)
        => View(Eng) = shut.view

\* C3: a key whose last successful write was a Delete is not found by Get and is not
\* among Keys, in the engine that deleted it and in every engine opened later on the
\* directory (no crash having taken bytes of a file).
C3_TombstoneSemantics ==
    (status = "open" /\ ~lost) =>
        \A k \in Keys :
            last[k].kind = Deleted =>
                /\ BitcaskGet(Eng, k).err = "key not found"
                /\ k \notin BitcaskKeys(Eng)

\* C6: a Put or Delete that returns an I/O error leaves the key directory as it was,
\* and Get returns for every key what it returned before the call.
C6_FailedWriteKeepsIndex ==
    [][(/\ ncalls' = ncalls + 1
        /\ ret'.op \in {"put", "delete"}
        /\ ret'.err \notin {"nil", "key not found"})
            => (keyDir' = keyDir /\ View(Eng)' = View(Eng))]_vars

\* A Put has failed in an engine that holds a key.
C6_Witness ==
    /\ status = "open"
    /\ ret = Return("put", "io")
    /\ DOMAIN keyDir # {}
    /\ nfaults = 1

\* The encodings of the records the engine writes.
Records ==
    {EncodeEntry(LogEntry(ts, k, v)) : ts \in Timestamps, k \in Keys, v \in Values}

\* Where the whole records at the front of data, read from pos on, end.
RECURSIVE TailStart(_, _)
TailStart(data, pos) ==
    IF \E r \in Records :
           pos + Len(r) <= Len(data) /\ SubSeq(data, pos + 1, pos + Len(r)) = r
    THEN LET r == CHOOSE q \in Records :
                      pos + Len(q) <= Len(data) /\ SubSeq(data, pos + 1, pos + Len(q)) = q
         IN  TailStart(data, pos + Len(r))
    ELSE pos

\* data is whole records followed by the cut front of one more record.
Torn(data) ==
    LET p == TailStart(data, 0)
        n == Len(data) - p
    IN  /\ n > 0
        /\ \E r \in Records : n < Len(r) /\ SubSeq(data, p + 1, Len(data)) = SubSeq(r, 1, n)

\* The last record of the file of the highest id is cut, every other file is whole.
TornTailOnly ==
    /\ DOMAIN disk # {}
    /\ Torn(disk[Max(DOMAIN disk)].data)
    /\ \A id \in DOMAIN disk \ {Max(DOMAIN disk)} :
           TailStart(disk[id].data, 0) = Len(disk[id].data)

\* C7: when the last record of the file of the highest id is cut at any byte, Open
\* succeeds and builds the key directory it builds without the cut record.
C7_CrashTailTolerated ==
    (status = "down" /\ TornTailOnly) =>
        LET top == Max(DOMAIN disk)
            whole == [disk EXCEPT ![top].data = SubSeq(@, 1, TailStart(@, 0))]
            o == BitcaskOpen(disk, FALSE)
        IN  /\ o.err = "nil"
            /\ o.e.keyDir = BitcaskOpen(whole, FALSE).e.keyDir

\* C8: a Put that succeeds and finds the active file at or above MaxFileSize writes
\* its record as the first of a new file, whose id is the highest id on disk plus
\* one and which the key's entry names; and no step appends to a file that is not
\* the active one.
C8_RotationBoundary ==
    [][/\ (/\ status = "open"
           /\ ncalls' = ncalls + 1
           /\ ret' = Return("put", "nil")
           /\ lf[activeFile].size >= cfg.MaxFileSize)
              => /\ activeFile' = Max(DOMAIN disk) + 1
                 /\ \E kv \in Writes, ts \in Timestamps :
                        /\ disk'[activeFile'].data = EncodeEntry(LogEntry(ts, kv[1], kv[2]))
                        /\ kv[1] \in DOMAIN keyDir'
                        /\ keyDir'[kv[1]].FileID = activeFile'
       /\ \A id \in DOMAIN disk \ {activeFile} :
              /\ id \in DOMAIN disk'
              /\ Len(disk'[id].data) <= Len(disk[id].data)
              /\ disk'[id].data = SubSeq(disk[id].data, 1, Len(disk'[id].data))]_vars

\* Two rotations have taken place: the files 1 and 2 are sealed and hold records,
\* the Put that has just returned wrote the first record of file 3.
C8_Witness ==
    /\ status = "open"
    /\ ret = Return("put", "nil")
    /\ activeFile = 3
    /\ readOnlyFiles = {1, 2}
    /\ Len(disk[1].data) >= cfg.MaxFileSize /\ Len(disk[2].data) >= cfg.MaxFileSize
    /\ Len(disk[3].data) > 0

\* C9: a segment that Open or a rotation creates gets an id above the id of every
\* file the directory holds at that moment, and no file leaves the directory.
C9_SegmentIdsIncrease ==
    [][/\ DOMAIN disk \subseteq DOMAIN disk'
       /\ \A id \in DOMAIN disk' \ DOMAIN disk : \A old \in DOMAIN disk : id > old
       /\ (\/ status # "open" /\ status' = "open"
           \/ /\ status = "open" /\ ncalls' = ncalls + 1 /\ ret' = Return("put", "nil")
              /\ lf[activeFile].size >= cfg.MaxFileSize
           \/ activeFile' # activeFile /\ activeFile' # NoFile)
              => /\ activeFile' \in DOMAIN disk' \ DOMAIN disk
                 /\ \A old \in DOMAIN disk : activeFile' > old]_vars

\* An engine opened on a directory that holds a file sealed by a rotation and the
\* file that was active after it.
C9_Witness ==
    /\ status = "open"
    /\ ret = Return("open", "nil")
    /\ activeFile = 3
    /\ readOnlyFiles = {1, 2}
    /\ Len(disk[1].data) >= cfg.MaxFileSize /\ Len(disk[2].data) > 0
    /\ shut.how # "none"

\* C10: with SyncWrites, after a crash Open succeeds and Get returns, for every key,
\* the value of its last Put that returned nil, and finds no key whose last call
\* that returned nil was a Delete.
C10_SyncDurability ==
    (cfg.SyncWrites /\ status = "down" /\ ret.op = "crash") =>
        LET o == BitcaskOpen(disk, FALSE)
        IN  /\ o.err = "nil"
            /\ \A k \in Keys :
                   /\ last[k].kind = "put"
                          => BitcaskGet(o.e, k) = [err |-> "nil", value |-> last[k].v]
                   /\ last[k].kind = Deleted => BitcaskGet(o.e, k).err = "key not found"

\* Goroutine t is inside the critical section of a mutating call, of a reading call.
InWriteCS(t) == th[t].pc \in WriteSteps
InReadCS(t) == th[t].pc \in ReadSteps

\* C4: a Get returns what Get of its key returned before the call or what a Put or
\* Delete that took effect during the call made it return: the whole value of one
\* of them, no error and no not-found while the key was there all along.
C4_AtomicPut ==
    status = "open" =>
        \A t \in Threads :
            (th[t].op = "get" /\ th[t].pc = "RUnlock") => th[t].res \in th[t].seen

\* A Get of <<97>>, called when the key held <<>>, returns the <<2, 3>> of a Put that
\* rotated the active file and took effect during the Get.
C4_Witness ==
    \E t \in Threads :
        /\ th[t].op = "get" /\ th[t].pc = "RUnlock" /\ th[t].key = <<97>>
        /\ th[t].seen = {[err |-> "nil", value |-> <<>>], [err |-> "nil", value |-> <<2, 3>>]}
        /\ th[t].res = [err |-> "nil", value |-> <<2, 3>>]
        /\ keyDir[<<97>>].FileID = activeFile
        /\ readOnlyFiles # {}
        /\ disk[activeFile].data = EncodeEntry(LogEntry(258, <<97>>, <<2, 3>>))

\* Who is inside a critical section holds bc.mu in the mode of its call, and nobody
\* is inside one together with a goroutine inside a mutating call.
LockHeld ==
    \A t \in Threads :
        /\ InWriteCS(t) => /\ mu.writer = t /\ mu.readers = {}
                           /\ \A u \in Threads \ {t} : ~InWriteCS(u) /\ ~InReadCS(u)
        /\ InReadCS(t) => t \in mu.readers /\ mu.writer = NoThread

\* C5: a goroutine inside a mutating call (Put with its rotation, Delete, Close)
\* holds bc.mu for writing and no other goroutine is inside a call; a goroutine
\* inside a reading call holds bc.mu for reading; and the key directory, the active
\* file and the read-only files change only in a step of the goroutine that holds
\* bc.mu for writing.
C5_LockDiscipline ==
    [][/\ LockHeld
       /\ LockHeld'
       /\ (keyDir' # keyDir \/ activeFile' # activeFile \/ readOnlyFiles' # readOnlyFiles)
              => \E t \in Threads : mu.writer = t /\ InWriteCS(t) /\ th'[t] # th[t]]_vars

\* Two goroutines are inside Get at once.
C5_Witness ==
    /\ mu.readers = Threads
    /\ \A t \in Threads : th[t].op = "get" /\ th[t].pc = "get.read"

\* A call of Delete has just returned.
DeleteReturned == ncalls' = ncalls + 1 /\ ret'.op = "delete"

\* C11: Get and Delete of a key that has no entry in the key directory return "key
\* not found"; such a Delete, whatever I/O error lies in wait for it, appends no
\* record, rotates nothing and leaves the key directory, the active file, the
\* read-only files, the LogFile objects and every file of the directory as they were.
C11_NotFoundChangesNothing ==
    /\ [](status = "open" =>
            \A k \in Keys \ DOMAIN keyDir :
                /\ BitcaskGet(Eng, k) = [err |-> "key not found", value |-> <<>>]
                /\ \A ts \in Timestamps, f \in Faults :
                       BitcaskDelete(Eng, cfg, k, ts, f)
                           = [e |-> Eng, err |-> "key not found", hit |-> FALSE])
    /\ [][/\ (DeleteReturned /\ ret'.err = "key not found")
                => UNCHANGED <<disk, keyDir, activeFile, readOnlyFiles, lf, status>>
          /\ (DeleteReturned /\ DOMAIN keyDir = {}) => ret'.err = "key not found"]_vars

\* Delete of <<98, 99>> returned "key not found" in an engine that holds <<97>> and
\* whose active file has reached MaxFileSize.
C11_Witness ==
    /\ status = "open"
    /\ ret = Return("delete", "key not found")
    /\ DOMAIN keyDir = {<<97>>}
    /\ lf[activeFile].size >= cfg.MaxFileSize
    /\ Len(disk[activeFile].data) = lf[activeFile].size

\* Record i of codec.log is in the file whole.
Whole(i) == i < Len(codec.log) \/ ~codec.cut

\* C12: ReadEntry at the offset p a record was written at returns nil, the record's
\* timestamp, key and value with the lengths of the two, and nextPos
\* = p + 12 + the length of the key + the length of the value, which is where the
\* next record was written or, after the last record, the end of the file; for
\* records with an empty key, an empty value (a tombstone) and both.
C12_CodecRoundTrip ==
    \A i \in DOMAIN codec.log :
        (codec.got.pos = codec.log[i].pos /\ Whole(i)) =>
            /\ codec.got.err = "nil"
            /\ codec.got.entry = codec.log[i].entry
            /\ codec.got.nextPos = codec.log[i].pos + 12 + Len(codec.log[i].entry.Key)
                                       + Len(codec.log[i].entry.Value)
            /\ codec.got.nextPos = IF i < Len(codec.log) THEN codec.log[i + 1].pos
                                   ELSE Len(codec.file.data)

\* The record of an empty key and an empty value, written behind a record of three
\* bytes of key and value, has been decoded at its offset 15; and the first record
\* read back with the second behind it.
C12_Witness ==
    /\ Len(codec.log) = 2
    /\ codec.log[1].entry = LogEntry(16909060, <<97>>, <<2, 3>>)
    /\ codec.log[2] = [pos |-> 15, entry |-> LogEntry(16909060, <<>>, <<>>), valuePos |-> 27]
    /\ codec.got = [pos |-> 15, err |-> "nil", entry |-> LogEntry(16909060, <<>>, <<>>),
                    nextPos |-> 27]
    /\ Len(codec.file.data) = 27

\* What a map holds for key after the calls of h: the value of the last Put of key,
\* nothing when there was none or a Delete of key came after it.
RefGet(h, key) ==
    LET on == {i \in DOMAIN h : h[i].key = key}
    IN  IF on = {} \/ h[Max(on \cup {0})].op = "delete" THEN NotFound
        ELSE [val |-> h[Max(on)].val, ok |-> TRUE, panic |-> FALSE]

OnlyPuts == \A i \in DOMAIN ref : ref[i].op = "put"

\* C13: after Puts alone, in whatever order the keys came, with keys put again and with
\* leaves and internal nodes split, Get returns for every key that was put the value
\* of its last Put and found, for every other key not found; for the degrees 3 and 4.
C13_TreeAgreesWithMap ==
    OnlyPuts =>
        /\ ~tree.panicked
        /\ \A key \in TreeKeys : TreeGet(tree, key) = RefGet(ref, key)

\* A call of the tree's Delete has just returned; its key and what it returned.
TreeDeleteReturned == Len(ref') = Len(ref) + 1 /\ ref'[Len(ref')].op = "delete"
DeletedKey == ref'[Len(ref')].key
DeleteOK == ref'[Len(ref')].ok

\* C14: on a tree built by Puts alone, Delete of a key that was put returns true and
\* Get of the key reports not found afterwards, Delete of a key that was not put
\* returns false, and either way Get of every other key returns what it returned
\* before the Delete.
C14_DeleteRemovesOneKey ==
    [][(OnlyPuts /\ TreeDeleteReturned) =>
           /\ RefGet(ref, DeletedKey).ok => (DeleteOK /\ ~TreeGet(tree', DeletedKey).ok)
           /\ ~RefGet(ref, DeletedKey).ok => ~DeleteOK
           /\ \A key \in TreeKeys \ {DeletedKey} :
                  TreeGet(tree', key) = TreeGet(tree, key)]_vars

\* C15: no step of an open engine appends to a file whose LogFile had reached
\* MaxFileSize when the step began: Put and Delete alike rotate first.
C15_RotationNeverLazy ==
    [][status = "open" =>
           \A id \in DOMAIN disk \cap DOMAIN lf :
               (id \in DOMAIN disk' /\ Len(disk'[id].data) > Len(disk[id].data))
                   => lf[id].size < cfg.MaxFileSize]_vars

\* C16: the key directory of an open engine holds no entry of a record whose value
\* has the length zero: such a record removes the key's entry, whether Put or Delete
\* wrote it or recovery replayed it.
C16_TombstonesNotIndexed ==
    status = "open" => \A k \in DOMAIN keyDir : keyDir[k].ValueSize # 0

\* C17: every entry of the key directory of an open engine names the active file or
\* one of the read-only files, and its value lies within the bytes the file holds;
\* so Get of a key that has an entry does not fail with "log file not found", and
\* while the handles are open it does not fail at all.
C17_NoDanglingEntry ==
    status = "open" =>
        \A k \in DOMAIN keyDir :
            /\ keyDir[k].FileID \in {activeFile} \cup readOnlyFiles
            /\ keyDir[k].FileID \in DOMAIN disk
            /\ keyDir[k].ValuePos + keyDir[k].ValueSize <= Len(disk[keyDir[k].FileID].data)
            /\ BitcaskGet(Eng, k).err # "log file not found"
            /\ AllOpen => BitcaskGet(Eng, k).err = "nil"

\* Both keys have entries, <<97>> in a file that a rotation has sealed and <<98, 99>>
\* in the active file, and each value is the last bytes of its file.
C17_Witness ==
    /\ status = "open" /\ AllOpen
    /\ DOMAIN keyDir = {<<97>>, <<98, 99>>}
    /\ keyDir[<<97>>].FileID \in readOnlyFiles \ {activeFile}
    /\ keyDir[<<98, 99>>].FileID = activeFile
    /\ \A k \in DOMAIN keyDir :
           keyDir[k].ValuePos + keyDir[k].ValueSize = Len(disk[keyDir[k].FileID].data)

\* A file below the highest id ends in a cut record, the directory is not open.
TornInside ==
    /\ status = "down"
    /\ \E id \in DOMAIN disk : id # Max(DOMAIN disk) /\ Torn(disk[id].data)

\* C18: when a file that is not the one of the highest id ends in a record cut at any
\* byte, Open fails, and with an error that is not the one of a failed I/O call; it
\* does not take the cut for the end of the log and go on with the next file.
C18_InteriorCorruptionFatal ==
    TornInside => BitcaskOpen(disk, FALSE).err \notin {"nil", "io"}

\* The bytes of the file from pos on are the front of a record of codec.log, cut
\* short: some of them are there, not all.
CutRecordAt(pos) ==
    /\ codec.cut
    /\ codec.log # <<>>
    /\ pos = codec.log[Len(codec.log)].pos

\* C19: ReadEntry returns io.EOF, the end of the log, only when called with the
\* offset of the end of the file; called with the offset of a record of which the
\* file holds some bytes and not all, it returns an error other than io.EOF, and no
\* record.
C19_DecoderEndOfLog ==
    /\ codec.got.err = "EOF" => codec.got.pos = Len(codec.file.data)
    /\ CutRecordAt(codec.got.pos) => codec.got.err \notin {"nil", "EOF"}

\* The key directory that replaying the files of the directory gives.
Replayed == loadFiles(NoEngine(disk), DOMAIN disk).e.keyDir

\* C20: the entry that recovery installs for a record is the entry Put installed when
\* it wrote the record (file id, offset of the value = offset of the record + 12 +
\* length of the key, length of the value, timestamp): while all calls succeed, a
\* replay of the files gives every key with a value of some length the entry it has
\* in the key directory, and after Close and Open every key that had an entry has
\* the same entry again.
C20_RecoveryReproducesEntries ==
    /\ (status = "open" /\ AllOpen /\ nfaults = 0) =>
           \A k \in DOMAIN keyDir :
               keyDir[k].ValueSize > 0 => (k \in DOMAIN Replayed /\ Replayed[k] = keyDir[k])
    /\ (status = "open" /\ ret = Return("open", "nil") /\ shut.how = "close" /\ nfaults = 0) =>
           \A k \in DOMAIN shut.keyDir : k \in DOMAIN keyDir /\ keyDir[k] = shut.keyDir[k]

\* C21: in an open engine the active file is the one writable segment: its LogFile
\* accepts a record, and the LogFile of every read-only file, opened by recovery or
\* sealed by a rotation, is readOnly and its Write fails.
C21_OneWritableSegment ==
    status = "open" =>
        /\ ~lf[activeFile].readOnly
        /\ \A id \in readOnlyFiles :
               /\ lf[id].readOnly
               /\ \A kv \in Writes, ts \in Timestamps :
                      LogFileWrite(lf[id], LogEntry(ts, kv[1], kv[2])).err # "nil"

\* The process ends: the one step in which the environment, not the engine, acts on
\* the files.
IsCrash == status = "open" /\ status' = "down"

Synced(d, l, id) == l[id].buf = <<>> /\ d[id].durable = Len(d[id].data)

\* A call of Put that found the active file at or above MaxFileSize has just returned.
RotatingPutReturned ==
    /\ status = "open"
    /\ ncalls' = ncalls + 1
    /\ ret'.op = "put"
    /\ NeedsRotation(Eng, cfg)

\* C23: with SyncWrites and without, a file that a step of the open engine adds to
\* the read-only files is synced at the end of the step, and so is the file that was
\* active when a step makes another file the active one; and a Put that finds the
\* active file at or above MaxFileSize either leaves that file synced or returns an
\* error with the active file, the read-only files and the files of the directory
\* as they were: no rotation, no new file, no record in the key directory.
C23_SealingSyncs ==
    [][/\ (status = "open" /\ status' = "open")
              => /\ \A id \in readOnlyFiles' \ readOnlyFiles : Synced(disk', lf', id)
                 /\ activeFile' # activeFile => Synced(disk', lf', activeFile)
       /\ (RotatingPutReturned /\ ~Synced(disk', lf', activeFile))
              => /\ ret'.err \notin {"nil", "key not found"}
                 /\ activeFile' = activeFile
                 /\ readOnlyFiles' = readOnlyFiles
                 /\ DOMAIN disk' = DOMAIN disk
                 /\ keyDir' = keyDir]_vars

\* Without SyncWrites, a Put has rotated: file 1, which no call had synced, is among
\* the read-only files with all its 15 bytes durable, and the record of the Put is the
\* first of the new active file 2, flushed and not synced.
C23_Witness ==
    /\ status = "open"
    /\ ~cfg.SyncWrites
    /\ ret = Return("put", "nil")
    /\ ncalls = 2
    /\ readOnlyFiles = {1}
    /\ activeFile = 2
    /\ Len(disk[1].data) = 15 /\ disk[1].durable = 15
    /\ Len(disk[2].data) > 0 /\ disk[2].durable = 0

\* C24: the first call of Close on an open engine, whatever calls came before and
\* whatever they returned, returns nil and leaves the writer of the active file
\* empty and the handle of the active file and of every read-only file closed, none
\* of them closed twice (the second Close of a handle is an error).
C24_CloseReleasesAll ==
    [][(status = "open" /\ AllOpen /\ ret.op # "close" /\ ret'.op = "close")
           => /\ ret'.err = "nil"
              /\ lf'[activeFile].buf = <<>>
              /\ \A id \in {activeFile} \cup readOnlyFiles : lf'[id].closed]_vars

\* The nodes of the tree below and including n.
RECURSIVE Subtree(_, _)
Subtree(t, n) ==
    IF n = Nil THEN {}
    ELSE IF t.nodes[n].isLeaf THEN {n}
    ELSE {n} \cup UNION {Subtree(t, At(t, t.nodes[n].children, i))
                            : i \in Indices(t.nodes[n].children)}

\* ceil(d / 2)
HalfUp(d) == (d + 1) \div 2

\* C25: after Puts alone on a tree of degree d (3 and 4), every node of the tree,
\* leaf or internal, holds at most d keys, every node but the root holds at least
\* ceil(d / 2) keys, and every internal node has one child more than it has keys.
C25_NodeOccupancy ==
    (OnlyPuts /\ ~tree.panicked) =>
        \A n \in Subtree(tree, tree.root) :
            /\ tree.nodes[n].keys.len <= tree.degree
            /\ n # tree.root => tree.nodes[n].keys.len >= HalfUp(tree.degree)
            /\ ~tree.nodes[n].isLeaf
                   => tree.nodes[n].children.len = tree.nodes[n].keys.len + 1

\* A call of Put or Delete has just returned an error other than "key not found".
WriteFailed ==
    /\ status = "open"
    /\ ncalls' = ncalls + 1
    /\ ret'.op \in {"put", "delete"}
    /\ ret'.err \notin {"nil", "key not found"}

\* C26: a Put or Delete that returns an error leaves the files such that a replay
\* gives the key directory it gave before the call, so that no Open makes the failed
\* write visible; and between the calls the key directory of the open engine is the
\* one a replay of the files gives.
C26_IndexAgreesWithLog ==
    /\ [][WriteFailed => Replayed' = Replayed]_vars
    /\ [](status = "open" => keyDir = Replayed)

\* C27: in an open engine, also after calls that returned I/O errors, the active
\* file is not among the read-only files and its id is above the id of each of them.
C27_ActiveNotSealed ==
    status = "open" =>
        /\ activeFile \notin readOnlyFiles
        /\ \A id \in readOnlyFiles : activeFile > id

\* Goroutine t holds bc.mu.
Holds(t) == mu.writer = t \/ t \in mu.readers

\* C28: a goroutine holds bc.mu only inside the critical section of its call: not
\* while it waits for the lock (it never locks again what it holds) and not after
\* its call has returned, whatever it returned, a failed rotation and an I/O error
\* included; and with a fair lock every goroutine that waits for bc.mu gets it and
\* every call returns.
C28_LockAlwaysReleased ==
    /\ [](\A t \in Threads :
              /\ th[t].pc \in {"idle", "Lock", "RLock"} => ~Holds(t)
              /\ mu.writer = t => InWriteCS(t)
              /\ t \in mu.readers => InReadCS(t))
    /\ \A t \in Threads : (th[t].pc \in {"Lock", "RLock"}) ~> Holds(t)
    /\ \A t \in Threads : (th[t].pc # "idle") ~> (th[t].pc = "idle")

\* Goroutine 1 is about to return from a Put whose rotation failed at the fsync, still
\* holding bc.mu, and goroutine 2 waits for bc.mu in a call of Get.
C28_Witness ==
    /\ th[1].op = "put" /\ th[1].pc = "Unlock" /\ th[1].res.err = "io"
    /\ NeedsRotation(Eng, cfg)
    /\ nfaults = 1
    /\ readOnlyFiles = {}
    /\ mu.writer = 1
    /\ th[2].op = "get" /\ th[2].pc = "RLock"

====
